---- MODULE Spec2Model ----
(***************************************************************************)
(* The two documentation examples of docs/architecture/database_storage/   *)
(* examples: example_content_qdrant.py (a point store filled by two upsert *)
(* calls) and example_content_weaviate.py (a schema-based object store     *)
(* filled by create_class, data_object.create and reference_add calls).    *)
(* Each script is a straight-line program; one step of the model is one    *)
(* statement of a script.  The two scripts run side by side against their  *)
(* own stores.                                                             *)
(***************************************************************************)
EXTENDS Integers, Sequences, FiniteSets, TLC

VARIABLES upsertMode, qpc, qenv, qstore, qcalls, wpc, wschema, wenv, wstore, wcalls

vars == <<upsertMode, qpc, qenv, qstore, qcalls, wpc, wschema, wenv, wstore, wcalls>>

qvars == <<qpc, qenv, qstore, qcalls>>

wvars == <<wpc, wschema, wenv, wstore, wcalls>>

(***************************************************************************)
(* Values                                                                  *)
(***************************************************************************)

\* the value of the literal `...` every embedding variable is bound to
Ellipsis == "Ellipsis"

\* a point stored without a vector
NoVector == "None"

\* What an upsert does to a point whose id is already stored is decided by
\* the store, not by the script: the point is overwritten, or the new fields
\* are added to it.
UpsertModes == {"replace", "merge"}

RelationNames == {"participatedIn", "inspired", "marriedTo", "celebrated",
                  "learnedSkill", "generatedIdea", "tookPlaceAt"}

Range(s) == {s[i] : i \in DOMAIN s}

\* f extended (or overwritten) at k
Put(f, k, v) == [x \in DOMAIN f \cup {k} |-> IF x = k THEN v ELSE f[x]]

\* dict update: the keys of b win
Merge(a, b) == [k \in DOMAIN a \cup DOMAIN b |-> IF k \in DOMAIN b THEN b[k] ELSE a[k]]

(***************************************************************************)
(* example_content_qdrant.py                                               *)
(***************************************************************************)

\* lines 5-14: the embedding variables, in the order they are assigned
Embeddings == <<"kaiser_embedding", "nancy_embedding", "collegiate_embedding",
                "princeton_embedding", "salida_embedding", "wildlife_embedding",
                "resilience_embedding", "backpacking_embedding",
                "anniversary_embedding", "blacksmithing_embedding">>

CollectionName == "entities"

\* lines 19-30: the points of the first upsert, env the script's variables
EntityPoints(env) == <<
  [id |-> "kaiser", vector |-> env["kaiser_embedding"],
   payload |-> [type |-> "Person", name |-> "Kaiser Soze"]],
  [id |-> "nancy", vector |-> env["nancy_embedding"],
   payload |-> [type |-> "Person", name |-> "Nancy Soze"]],
  [id |-> "collegiate", vector |-> env["collegiate_embedding"],
   payload |-> [type |-> "Place", name |-> "Collegiate Peaks Wilderness",
                placeType |-> "Wilderness", state |-> "Colorado"]],
  [id |-> "princeton", vector |-> env["princeton_embedding"],
   payload |-> [type |-> "Place", name |-> "Mount Princeton",
                placeType |-> "Mountain", elevation |-> 14197, state |-> "Colorado"]],
  [id |-> "salida", vector |-> env["salida_embedding"],
   payload |-> [type |-> "Place", name |-> "Salida", placeType |-> "Town",
                state |-> "Colorado"]],
  [id |-> "wildlife", vector |-> env["wildlife_embedding"],
   payload |-> [type |-> "Project", name |-> "Wildlife Monitoring",
                status |-> "Concept", inspiration |-> "Collegiate Peaks trip"]],
  [id |-> "resilience", vector |-> env["resilience_embedding"],
   payload |-> [type |-> "Idea", name |-> "Community Resilience Through Technology",
                topics |-> <<"mesh networks", "resource sharing", "AI disaster response">>]],
  [id |-> "backpacking", vector |-> env["backpacking_embedding"],
   payload |-> [type |-> "Experience", description |-> "Solo backpacking trip",
                startDate |-> "2024-06", durationDays |-> 8, distanceMiles |-> 85,
                inspirationFor |-> "Wildlife Monitoring"]],
  [id |-> "anniversary", vector |-> env["anniversary_embedding"],
   payload |-> [type |-> "Event", name |-> "24th Wedding Anniversary",
                date |-> "2024-09", activity |-> "Climbed Mount Princeton"]],
  [id |-> "blacksmithing", vector |-> env["blacksmithing_embedding"],
   payload |-> [type |-> "Experience", description |-> "Learned blacksmithing in Salida",
                startDate |-> "2024-12", durationMonths |-> 3,
                mentor |-> "Old-timer in Salida", product |-> "Custom door handles"]] >>

\* RelationshipPoints with a second point that rewrites nancy
RelationshipPoints_Nancy == <<
  [id |-> "kaiser",
   payload |-> [participatedIn |-> <<"backpacking">>, inspired |-> <<"wildlife">>,
                marriedTo |-> <<"nancy">>, celebrated |-> <<"anniversary">>,
                learnedSkill |-> <<"blacksmithing">>, generatedIdea |-> <<"resilience">>]],
  [id |-> "nancy", payload |-> [name |-> "Nancy S."]] >>

\* RelationshipPoints with the generatedIdea list left out
RelationshipPoints_MissingEdge == <<
  [id |-> "kaiser",
   payload |-> [participatedIn |-> <<"backpacking">>, inspired |-> <<"wildlife">>,
                marriedTo |-> <<"nancy">>, celebrated |-> <<"anniversary">>,
                learnedSkill |-> <<"blacksmithing">>]] >>

\* RelationshipPoints with a target that is not the id of any point
RelationshipPoints_Dangling == <<
  [id |-> "kaiser",
   payload |-> [participatedIn |-> <<"backpacking">>, inspired |-> <<"wildlife">>,
                marriedTo |-> <<"nancy">>, celebrated |-> <<"anniversary">>,
                learnedSkill |-> <<"blacksmithing">>, generatedIdea |-> <<"resilence">>]] >>

\* lines 38-40: the points of the second upsert (no "vector" key)
RelationshipPoints == <<
  [id |-> "kaiser",
   payload |-> [participatedIn |-> <<"backpacking">>, inspired |-> <<"wildlife">>,
                marriedTo |-> <<"nancy">>, celebrated |-> <<"anniversary">>,
                learnedSkill |-> <<"blacksmithing">>, generatedIdea |-> <<"resilience">>]] >>

\* the vector a point of an upsert carries
PointVector(p) == IF "vector" \in DOMAIN p THEN p.vector ELSE NoVector

\* one point written to the store
UpsertPoint(store, p, mode) ==
  IF p.id \in DOMAIN store /\ mode = "merge"
    THEN Put(store, p.id,
             [vector  |-> IF "vector" \in DOMAIN p THEN p.vector ELSE store[p.id].vector,
              payload |-> Merge(store[p.id].payload, p.payload)])
    ELSE Put(store, p.id, [vector |-> PointVector(p), payload |-> p.payload])

RECURSIVE UpsertAll(_, _, _)
\* the points of one upsert call, written in list order
UpsertAll(store, points, mode) ==
  IF points = << >> THEN store
  ELSE UpsertAll(UpsertPoint(store, Head(points), mode), Tail(points), mode)

\* UpsertCall into another collection
UpsertCall_WrongCollection(points) ==
  [api |-> "upsert", collection_name |-> "entity", points |-> points]

\* the call as the client receives it
UpsertCall(points) == [api |-> "upsert", collection_name |-> CollectionName, points |-> points]

\* QdrantScript with the first upsert issued twice
QdrantScript_Retry ==
  [i \in 1..Len(Embeddings) |-> [op |-> "assign", var |-> Embeddings[i]]]
    \o <<[op |-> "upsert", points |-> "entities"],
         [op |-> "upsert", points |-> "entities"],
         [op |-> "upsert", points |-> "relationships"]>>

\* lines 5-41: the statements of the script, in file order
QdrantScript ==
  [i \in 1..Len(Embeddings) |-> [op |-> "assign", var |-> Embeddings[i]]]
    \o <<[op |-> "upsert", points |-> "entities"],
         [op |-> "upsert", points |-> "relationships"]>>

\* the next statement of the script
QStmt == QdrantScript[qpc + 1]

\* lines 5-14: <name>_embedding = ...
AssignEmbedding ==
  /\ qpc < Len(QdrantScript)
  /\ QStmt.op = "assign"
  /\ qenv' = Put(qenv, QStmt.var, Ellipsis)
  /\ qpc' = qpc + 1
  /\ UNCHANGED <<upsertMode, qstore, qcalls, wvars>>

\* lines 17-31: qdrant_client.upsert(collection_name="entities", points=[...ten entities...])
UpsertEntities ==
  /\ qpc < Len(QdrantScript)
  /\ QStmt.op = "upsert"
  /\ QStmt.points = "entities"
  /\ qstore' = UpsertAll(qstore, EntityPoints(qenv), upsertMode)
  /\ qcalls' = Append(qcalls, UpsertCall(EntityPoints(qenv)))
  /\ qpc' = qpc + 1
  /\ UNCHANGED <<upsertMode, qenv, wvars>>

\* lines 36-41: qdrant_client.upsert(collection_name="entities", points=[kaiser relationships])
UpsertRelationships ==
  /\ qpc < Len(QdrantScript)
  /\ QStmt.op = "upsert"
  /\ QStmt.points = "relationships"
  /\ qstore' = UpsertAll(qstore, RelationshipPoints, upsertMode)
  /\ qcalls' = Append(qcalls, UpsertCall(RelationshipPoints))
  /\ qpc' = qpc + 1
  /\ UNCHANGED <<upsertMode, qenv, wvars>>

(***************************************************************************)
(* example_content_weaviate.py                                             *)
(***************************************************************************)

\* lines 5-53: the class definitions, in call order
Classes == <<
  [class |-> "Person", properties |-> <<[name |-> "name", dataType |-> <<"text">>]>>],
  [class |-> "Place", properties |-> <<[name |-> "name", dataType |-> <<"text">>],
                                       [name |-> "type", dataType |-> <<"text">>],
                                       [name |-> "state", dataType |-> <<"text">>],
                                       [name |-> "elevation", dataType |-> <<"number">>]>>],
  [class |-> "Project", properties |-> <<[name |-> "name", dataType |-> <<"text">>],
                                         [name |-> "status", dataType |-> <<"text">>],
                                         [name |-> "inspiration", dataType |-> <<"text">>]>>],
  [class |-> "Idea", properties |-> <<[name |-> "name", dataType |-> <<"text">>],
                                      [name |-> "topics", dataType |-> <<"text[]">>]>>],
  [class |-> "Experience", properties |-> <<[name |-> "description", dataType |-> <<"text">>],
                                            [name |-> "startDate", dataType |-> <<"text">>],
                                            [name |-> "durationDays", dataType |-> <<"number">>],
                                            [name |-> "durationMonths", dataType |-> <<"number">>],
                                            [name |-> "distanceMiles", dataType |-> <<"number">>],
                                            [name |-> "mentor", dataType |-> <<"text">>],
                                            [name |-> "product", dataType |-> <<"text">>],
                                            [name |-> "inspirationFor", dataType |-> <<"text">>]>>],
  [class |-> "Event", properties |-> <<[name |-> "name", dataType |-> <<"text">>],
                                       [name |-> "date", dataType |-> <<"text">>],
                                       [name |-> "activity", dataType |-> <<"text">>]>>] >>

\* lines 56-65: the objects, in call order; var is the variable the returned id is bound to
Objects == <<
  [var |-> "kaiser_id", class_name |-> "Person", data_object |-> [name |-> "Kaiser Soze"]],
  [var |-> "nancy_id", class_name |-> "Person", data_object |-> [name |-> "Nancy Soze"]],
  [var |-> "collegiate_id", class_name |-> "Place",
   data_object |-> [name |-> "Collegiate Peaks Wilderness", type |-> "Wilderness",
                    state |-> "Colorado"]],
  [var |-> "princeton_id", class_name |-> "Place",
   data_object |-> [name |-> "Mount Princeton", type |-> "Mountain", elevation |-> 14197,
                    state |-> "Colorado"]],
  [var |-> "salida_id", class_name |-> "Place",
   data_object |-> [name |-> "Salida", type |-> "Town", state |-> "Colorado"]],
  [var |-> "wildlife_id", class_name |-> "Project",
   data_object |-> [name |-> "Wildlife Monitoring", status |-> "Concept",
                    inspiration |-> "Collegiate Peaks trip"]],
  [var |-> "resilience_id", class_name |-> "Idea",
   data_object |-> [name |-> "Community Resilience Through Technology",
                    topics |-> <<"mesh networks", "resource sharing", "AI disaster response">>]],
  [var |-> "backpacking_id", class_name |-> "Experience",
   data_object |-> [description |-> "Solo backpacking trip", startDate |-> "2024-06",
                    durationDays |-> 8, distanceMiles |-> 85,
                    inspirationFor |-> "Wildlife Monitoring"]],
  [var |-> "anniversary_id", class_name |-> "Event",
   data_object |-> [name |-> "24th Wedding Anniversary", date |-> "2024-09",
                    activity |-> "Climbed Mount Princeton"]],
  [var |-> "blacksmithing_id", class_name |-> "Experience",
   data_object |-> [description |-> "Learned blacksmithing in Salida", startDate |-> "2024-12",
                    durationMonths |-> 3, mentor |-> "Old-timer in Salida",
                    product |-> "Custom door handles"]] >>

\* References with the marriedTo edge pointing the other way
References_Reversed == <<
  [from |-> "kaiser_id", rel |-> "participatedIn", to |-> "backpacking_id"],
  [from |-> "kaiser_id", rel |-> "inspired", to |-> "wildlife_id"],
  [from |-> "backpacking_id", rel |-> "tookPlaceAt", to |-> "collegiate_id"],
  [from |-> "nancy_id", rel |-> "marriedTo", to |-> "kaiser_id"],
  [from |-> "kaiser_id", rel |-> "celebrated", to |-> "anniversary_id"],
  [from |-> "nancy_id", rel |-> "celebrated", to |-> "anniversary_id"],
  [from |-> "anniversary_id", rel |-> "tookPlaceAt", to |-> "princeton_id"],
  [from |-> "kaiser_id", rel |-> "learnedSkill", to |-> "blacksmithing_id"],
  [from |-> "blacksmithing_id", rel |-> "tookPlaceAt", to |-> "salida_id"],
  [from |-> "kaiser_id", rel |-> "generatedIdea", to |-> "resilience_id"] >>

\* lines 68-77: the cross-references, in call order, by the variables that hold the ids
References == <<
  [from |-> "kaiser_id", rel |-> "participatedIn", to |-> "backpacking_id"],
  [from |-> "kaiser_id", rel |-> "inspired", to |-> "wildlife_id"],
  [from |-> "backpacking_id", rel |-> "tookPlaceAt", to |-> "collegiate_id"],
  [from |-> "kaiser_id", rel |-> "marriedTo", to |-> "nancy_id"],
  [from |-> "kaiser_id", rel |-> "celebrated", to |-> "anniversary_id"],
  [from |-> "nancy_id", rel |-> "celebrated", to |-> "anniversary_id"],
  [from |-> "anniversary_id", rel |-> "tookPlaceAt", to |-> "princeton_id"],
  [from |-> "kaiser_id", rel |-> "learnedSkill", to |-> "blacksmithing_id"],
  [from |-> "blacksmithing_id", rel |-> "tookPlaceAt", to |-> "salida_id"],
  [from |-> "kaiser_id", rel |-> "generatedIdea", to |-> "resilience_id"] >>

\* the property names a class definition declares
PropertyNames(c) == {c.properties[i].name : i \in DOMAIN c.properties}

\* the id the store gives a new object: the next one not in use
NewId(store) == Cardinality(DOMAIN store) + 1

\* WeaviateScript with the first reference_add moved before the last create
WeaviateScript_Interleaved ==
  [i \in 1..Len(Classes) |-> [op |-> "create_class", arg |-> Classes[i]]]
    \o [i \in 1..(Len(Objects) - 1) |-> [op |-> "create", arg |-> Objects[i]]]
    \o <<[op |-> "reference_add", arg |-> References[1]],
         [op |-> "create", arg |-> Objects[Len(Objects)]]>>
    \o [i \in 1..(Len(References) - 1) |-> [op |-> "reference_add", arg |-> References[i + 1]]]

\* lines 5-77: the statements of the script, in file order
WeaviateScript ==
  [i \in 1..Len(Classes) |-> [op |-> "create_class", arg |-> Classes[i]]]
    \o [i \in 1..Len(Objects) |-> [op |-> "create", arg |-> Objects[i]]]
    \o [i \in 1..Len(References) |-> [op |-> "reference_add", arg |-> References[i]]]

\* the next statement of the script
WStmt == WeaviateScript[wpc + 1]

\* lines 5-53: client.schema.create_class({...})
create_class ==
  /\ wpc < Len(WeaviateScript)
  /\ WStmt.op = "create_class"
  /\ LET c == WStmt.arg IN
       /\ wschema' = Put(wschema, c.class, PropertyNames(c))
       /\ wcalls' = Append(wcalls, [api |-> "create_class", class |-> c.class,
                                    properties |-> c.properties])
  /\ wpc' = wpc + 1
  /\ UNCHANGED <<upsertMode, qvars, wenv, wstore>>

\* lines 56-65: <name>_id = client.data_object.create({...}, "<Class>")
create ==
  /\ wpc < Len(WeaviateScript)
  /\ WStmt.op = "create"
  /\ LET o  == WStmt.arg
         id == NewId(wstore) IN
       /\ wstore' = Put(wstore, id, [class |-> o.class_name, properties |-> o.data_object,
                                     references |-> {}])
       /\ wenv' = Put(wenv, o.var, id)
       /\ wcalls' = Append(wcalls, [api |-> "create", data_object |-> o.data_object,
                                    class_name |-> o.class_name])
  /\ wpc' = wpc + 1
  /\ UNCHANGED <<upsertMode, qvars, wschema>>

\* lines 68-77: client.data_object.reference_add(<from>_id, "<rel>", <to>_id)
reference_add ==
  /\ wpc < Len(WeaviateScript)
  /\ WStmt.op = "reference_add"
  /\ LET r == WStmt.arg IN
       /\ r.from \in DOMAIN wenv
       /\ r.to \in DOMAIN wenv
       /\ wstore' = [wstore EXCEPT ![wenv[r.from]].references = @ \cup {<<r.rel, wenv[r.to]>>}]
       /\ wcalls' = Append(wcalls, [api |-> "reference_add", from_uuid |-> wenv[r.from],
                                    from_property_name |-> r.rel, to_uuid |-> wenv[r.to]])
  /\ wpc' = wpc + 1
  /\ UNCHANGED <<upsertMode, qvars, wschema, wenv>>

(***************************************************************************)
(* The two scripts side by side                                            *)
(***************************************************************************)

Init ==
  /\ upsertMode \in UpsertModes
  /\ qpc = 0
  /\ qenv = << >>
  /\ qstore = << >>
  /\ qcalls = << >>
  /\ wpc = 0
  /\ wschema = << >>
  /\ wenv = << >>
  /\ wstore = << >>
  /\ wcalls = << >>

Next ==
  \/ AssignEmbedding
  \/ UpsertEntities
  \/ UpsertRelationships
  \/ create_class
  \/ create
  \/ reference_add

Spec == Init /\ [][Next]_vars

\* each script is one process that runs its next statement whenever it has one
FairSpec ==
  /\ Spec
  /\ WF_vars(AssignEmbedding \/ UpsertEntities \/ UpsertRelationships)
  /\ WF_vars(create_class \/ create \/ reference_add)

QDone == qpc = Len(QdrantScript)

WDone == wpc = Len(WeaviateScript)

(***************************************************************************)
(* Views of the two stores                                                 *)
(***************************************************************************)

\* the ten entities, by the name the scripts give them
EntityNames == {"kaiser", "nancy", "collegiate", "princeton", "salida", "wildlife",
                "resilience", "backpacking", "anniversary", "blacksmithing"}

\* the Weaviate variable that holds the id of an entity
IdVar == [kaiser |-> "kaiser_id", nancy |-> "nancy_id", collegiate |-> "collegiate_id",
          princeton |-> "princeton_id", salida |-> "salida_id", wildlife |-> "wildlife_id",
          resilience |-> "resilience_id", backpacking |-> "backpacking_id",
          anniversary |-> "anniversary_id", blacksmithing |-> "blacksmithing_id"]

\* a Qdrant payload without its type tag and its relationship lists
QAttributes(payload) == DOMAIN payload \ ({"type"} \cup RelationNames)

\* the edges the Qdrant store holds, as <<source, label, target>>
QEdges ==
  UNION {UNION {{<<id, k, qstore[id].payload[k][i]>> : i \in DOMAIN qstore[id].payload[k]}
                : k \in DOMAIN qstore[id].payload \cap RelationNames}
         : id \in DOMAIN qstore}

\* the edges the Weaviate store holds, as <<source id, label, target id>>
WEdgesById ==
  UNION {{<<id, r[1], r[2]>> : r \in wstore[id].references} : id \in DOMAIN wstore}

\* the same edges, by entity name
WEdges ==
  {e \in EntityNames \X RelationNames \X EntityNames :
     /\ IdVar[e[1]] \in DOMAIN wenv
     /\ IdVar[e[3]] \in DOMAIN wenv
     /\ <<wenv[IdVar[e[1]]], e[2], wenv[IdVar[e[3]]]>> \in WEdgesById}

\* same keys, same value under each key
SameFields(a, b) == DOMAIN a = DOMAIN b /\ \A k \in DOMAIN a : a[k] = b[k]

\* every field of a is a field of b with the same value
HasFields(b, a) == \A k \in DOMAIN a : k \in DOMAIN b /\ b[k] = a[k]

\* the relationship upsert has been issued
QRelationshipsWritten ==
  \E i \in DOMAIN qcalls : \E j \in DOMAIN qcalls[i].points :
     DOMAIN qcalls[i].points[j].payload \cap RelationNames # {}

(***************************************************************************)
(* C1                                                                      *)
(***************************************************************************)

\* C1: when a script has run to completion its store holds exactly the ten
\* named entities, each with its type and with every attribute value given as
\* a literal in its insert call.
C1_TenEntitiesWithAttributes ==
  /\ QDone =>
       /\ DOMAIN qstore = EntityNames
       /\ \A i \in DOMAIN EntityPoints(qenv) :
            LET p == EntityPoints(qenv)[i] IN
              /\ p.id \in DOMAIN qstore
              /\ HasFields(qstore[p.id].payload, p.payload)
       /\ qstore["kaiser"].payload.type = "Person"
       /\ qstore["kaiser"].payload.name = "Kaiser Soze"
       /\ qstore["princeton"].payload.elevation = 14197
  /\ WDone =>
       /\ Cardinality(DOMAIN wstore) = Cardinality(EntityNames)
       /\ \A i \in DOMAIN Objects :
            LET o == Objects[i] IN
              /\ o.var \in DOMAIN wenv
              /\ wenv[o.var] \in DOMAIN wstore
              /\ wstore[wenv[o.var]].class = o.class_name
              /\ HasFields(wstore[wenv[o.var]].properties, o.data_object)

(***************************************************************************)
(* C2                                                                      *)
(***************************************************************************)

\* the ten directed edges the specification lists
ListedEdges == {<<"kaiser", "participatedIn", "backpacking">>,
                <<"kaiser", "inspired", "wildlife">>,
                <<"backpacking", "tookPlaceAt", "collegiate">>,
                <<"kaiser", "marriedTo", "nancy">>,
                <<"kaiser", "celebrated", "anniversary">>,
                <<"nancy", "celebrated", "anniversary">>,
                <<"anniversary", "tookPlaceAt", "princeton">>,
                <<"kaiser", "learnedSkill", "blacksmithing">>,
                <<"blacksmithing", "tookPlaceAt", "salida">>,
                <<"kaiser", "generatedIdea", "resilience">>}

NoReverseEdge(edges) == \A e \in edges : <<e[3], e[2], e[1]>> \notin edges

\* C2 as stated: after either script has completed, each of the ten listed
\* edges is in its store, and no edge exists in the reverse direction.
C2_Original ==
  /\ QDone => ListedEdges \subseteq QEdges /\ NoReverseEdge(QEdges)
  /\ WDone => ListedEdges \subseteq WEdges /\ NoReverseEdge(WEdges)

\* C2 (amended): after the Weaviate script has completed its store holds
\* exactly the ten listed edges; after the Qdrant script has completed its
\* store holds exactly the six listed edges whose source is kaiser; neither
\* store ever holds an edge together with its reverse.
C2_Amended ==
  /\ WDone => WEdges = ListedEdges
  /\ WDone => Cardinality(WEdgesById) = Cardinality(ListedEdges)
  /\ QDone => QEdges = {e \in ListedEdges : e[1] = "kaiser"}
  /\ NoReverseEdge(QEdges)
  /\ NoReverseEdge(WEdges)

C2_Witness == QDone /\ WDone /\ Cardinality(QEdges) = 6 /\ Cardinality(WEdges) = 10

(***************************************************************************)
(* C3                                                                      *)
(***************************************************************************)

IsSchemaCall(c) == c.api = "create_class"

\* a call that writes an entity record: data_object.create, or an upsert
\* with a point that carries an entity's type
IsInsertCall(c) ==
  \/ c.api = "create"
  \/ /\ c.api = "upsert"
     /\ \E j \in DOMAIN c.points : "type" \in DOMAIN c.points[j].payload

\* a call that adds relationships: reference_add, or an upsert with a point
\* that carries relationship lists
IsRelationshipCall(c) ==
  \/ c.api = "reference_add"
  \/ /\ c.api = "upsert"
     /\ \E j \in DOMAIN c.points : DOMAIN c.points[j].payload \cap RelationNames # {}

ThreePhases(calls) ==
  \A i, j \in DOMAIN calls :
    /\ IsSchemaCall(calls[i]) /\ IsInsertCall(calls[j]) => i < j
    /\ IsSchemaCall(calls[i]) /\ IsRelationshipCall(calls[j]) => i < j
    /\ IsInsertCall(calls[i]) /\ IsRelationshipCall(calls[j]) => i < j

\* C3: in each script every schema-definition call precedes every entity
\* insert and every entity insert precedes every relationship call.
C3_ThreeOrderedPhases == ThreePhases(qcalls) /\ ThreePhases(wcalls)

C3_Witness ==
  /\ QDone /\ WDone
  /\ \E i \in DOMAIN wcalls : IsSchemaCall(wcalls[i])
  /\ \E i \in DOMAIN wcalls : IsInsertCall(wcalls[i])
  /\ \E i \in DOMAIN wcalls : IsRelationshipCall(wcalls[i])
  /\ \E i \in DOMAIN qcalls : IsInsertCall(qcalls[i])
  /\ \E i \in DOMAIN qcalls : IsRelationshipCall(qcalls[i])

(***************************************************************************)
(* C4                                                                      *)
(***************************************************************************)

QKept(id) ==
  /\ id \in DOMAIN qstore'
  /\ qstore'[id].vector = qstore[id].vector
  /\ SameFields(qstore'[id].payload, qstore[id].payload)

WKept(id) ==
  /\ id \in DOMAIN wstore'
  /\ wstore'[id].class = wstore[id].class
  /\ SameFields(wstore'[id].properties, wstore[id].properties)

QSuppliesAllFour ==
  \A i \in DOMAIN qcalls :
    /\ "collection_name" \in DOMAIN qcalls[i]
    /\ \A j \in DOMAIN qcalls[i].points :
         {"id", "vector", "payload"} \subseteq DOMAIN qcalls[i].points[j]

\* every create carries class name, identifier, vector and properties
WSuppliesAllFour ==
  \A i \in DOMAIN wcalls :
    wcalls[i].api = "create" =>
      {"class_name", "uuid", "vector", "data_object"} \subseteq DOMAIN wcalls[i]

\* the edges added by reference_add calls
WReferenceCallEdges ==
  {<<wcalls[i].from_uuid, wcalls[i].from_property_name, wcalls[i].to_uuid>> :
     i \in {k \in DOMAIN wcalls : wcalls[k].api = "reference_add"}}

\* C6 as stated: every upsert/insert call supplies collection/class name,
\* identifier, vector and payload for each entity it writes, and every
\* relationship is added by a reference call (source, relation, target).
C6_Original ==
  /\ QSuppliesAllFour
  /\ WSuppliesAllFour
  /\ WEdgesById \subseteq WReferenceCallEdges
  /\ QEdges = {}

\* C6 (amended): every point of a Qdrant upsert supplies collection name,
\* identifier and payload, and the points that write an entity (the first
\* upsert) also supply a vector while the relationship point supplies none;
\* every Weaviate create supplies class name and properties but neither an
\* identifier nor a vector; every Weaviate relationship is added by a
\* reference_add call that supplies (source id, relation name, target id),
\* and every Qdrant relationship is a payload entry of an upsert point.
C6_Amended ==
  /\ \A i \in DOMAIN qcalls :
       /\ qcalls[i].collection_name = CollectionName
       /\ \A j \in DOMAIN qcalls[i].points :
            LET p == qcalls[i].points[j] IN
              /\ {"id", "payload"} \subseteq DOMAIN p
              /\ "type" \in DOMAIN p.payload => "vector" \in DOMAIN p /\ p.vector = Ellipsis
              /\ DOMAIN p.payload \cap RelationNames # {} => "vector" \notin DOMAIN p
  /\ \A i \in DOMAIN wcalls :
       wcalls[i].api = "create" => DOMAIN wcalls[i] = {"api", "class_name", "data_object"}
  /\ \A i \in DOMAIN wcalls :
       wcalls[i].api = "reference_add" =>
         /\ wcalls[i].from_uuid \in DOMAIN wstore
         /\ wcalls[i].to_uuid \in DOMAIN wstore
         /\ wcalls[i].from_property_name \in RelationNames
  /\ WEdgesById = WReferenceCallEdges
  /\ QEdges \subseteq
       UNION {UNION {UNION {{<<qcalls[i].points[j].id, k, qcalls[i].points[j].payload[k][n]>>
                              : n \in DOMAIN qcalls[i].points[j].payload[k]}
                            : k \in DOMAIN qcalls[i].points[j].payload \cap RelationNames}
                     : j \in DOMAIN qcalls[i].points}
              : i \in DOMAIN qcalls}

C6_Witness == QDone /\ WDone /\ Len(qcalls) = 2 /\ WReferenceCallEdges # {} /\ QEdges # {}

(***************************************************************************)
(* C5                                                                      *)
(***************************************************************************)

QPoint(n) == qstore[n]

WObject(n) == wstore[wenv[IdVar[n]]]

\* C5 as stated: the final stores are related one-to-one: for each of the
\* ten entities both hold an entity of the same type with the same attribute
\* names and values, and the same set of directed labelled edges.
C5_Original ==
  (QDone /\ WDone) =>
    /\ \A n \in EntityNames :
         /\ n \in DOMAIN qstore
         /\ IdVar[n] \in DOMAIN wenv
         /\ "type" \in DOMAIN QPoint(n).payload
         /\ QPoint(n).payload.type = WObject(n).class
         /\ QAttributes(QPoint(n).payload) = DOMAIN WObject(n).properties
         /\ \A k \in QAttributes(QPoint(n).payload) :
              QPoint(n).payload[k] = WObject(n).properties[k]
    /\ QEdges = WEdges

\* the Weaviate property that holds a Qdrant attribute
WKey(k) == IF k = "placeType" THEN "type" ELSE k

Corresponds(n) ==
  /\ "type" \in DOMAIN QPoint(n).payload
  /\ QPoint(n).payload.type = WObject(n).class
  /\ {WKey(k) : k \in QAttributes(QPoint(n).payload)} = DOMAIN WObject(n).properties
  /\ \A k \in QAttributes(QPoint(n).payload) :
       QPoint(n).payload[k] = WObject(n).properties[WKey(k)]

\* C5 (amended): for each of the ten entities held by both stores, both hold
\* an entity of the same type with the same attribute values, the Place
\* category being stored under "placeType" in Qdrant and under "type" in
\* Weaviate; this holds of kaiser until the Qdrant relationship upsert
\* rewrites its point, and of the other nine also in the final stores.  The
\* edges of the final Qdrant store are exactly the edges of the final
\* Weaviate store whose source is kaiser.
C5_Amended ==
  /\ \A n \in EntityNames :
       (/\ n \in DOMAIN qstore
        /\ IdVar[n] \in DOMAIN wenv
        /\ (n = "kaiser" => ~QRelationshipsWritten)) => Corresponds(n)
  /\ (QDone /\ WDone) =>
       /\ DOMAIN qstore = EntityNames
       /\ {wenv[IdVar[n]] : n \in EntityNames} = DOMAIN wstore
       /\ Cardinality(DOMAIN wstore) = Cardinality(EntityNames)
       /\ QEdges = {e \in WEdges : e[1] = "kaiser"}

C5_Witness == QDone /\ WDone /\ QEdges # {} /\ Corresponds("princeton")

(***************************************************************************)
(* C7                                                                      *)
(***************************************************************************)

\* the data model of section 3 of the specification
RequiredFields ==
  [Person     |-> {"name"},
   Place      |-> {"name", "state", "category"},
   Experience |-> {"description", "startDate"},
   Event      |-> {"name", "date", "activity"},
   Project    |-> {"name", "status", "inspiration"},
   Idea       |-> {"name", "topics"}]

OptionalFields ==
  [Person     |-> {},
   Place      |-> {"elevation"},
   Experience |-> {"durationDays", "durationMonths", "distanceMiles", "mentor", "product",
                   "inspirationFor"},
   Event      |-> {},
   Project    |-> {},
   Idea       |-> {}]

PlaceCategories == {"Wilderness", "Mountain", "Town"}

Conforms(type, fields) ==
  /\ type \in DOMAIN RequiredFields
  /\ RequiredFields[type] \subseteq fields
  /\ fields \subseteq RequiredFields[type] \cup OptionalFields[type]
  /\ ~({"durationDays", "durationMonths"} \subseteq fields)

\* C7: in every reachable state each stored entity carries only the fields
\* its type's data model lists and all of the non-optional ones, and the
\* category of a Place is one of Wilderness, Mountain, Town.
C7_DataModel ==
  /\ \A id \in DOMAIN qstore :
       LET payload == qstore[id].payload IN
         /\ "type" \in DOMAIN payload
         /\ Conforms(payload.type,
                     {IF k = "placeType" THEN "category" ELSE k : k \in QAttributes(payload)})
         /\ payload.type = "Place" => payload.placeType \in PlaceCategories
  /\ \A id \in DOMAIN wstore :
       LET o == wstore[id] IN
         /\ Conforms(o.class,
                     IF o.class = "Place"
                       THEN {IF k = "type" THEN "category" ELSE k : k \in DOMAIN o.properties}
                       ELSE DOMAIN o.properties)
         /\ o.class = "Place" => o.properties.type \in PlaceCategories

(***************************************************************************)
(* C8                                                                      *)
(***************************************************************************)

CallsOf(calls, api) == {i \in DOMAIN calls : calls[i].api = api}

QEnabledStatements ==
  {a \in {"assign", "entities", "relationships"} :
     \/ a = "assign" /\ ENABLED AssignEmbedding
     \/ a = "entities" /\ ENABLED UpsertEntities
     \/ a = "relationships" /\ ENABLED UpsertRelationships}

WEnabledStatements ==
  {a \in {"create_class", "create", "reference_add"} :
     \/ a = "create_class" /\ ENABLED create_class
     \/ a = "create" /\ ENABLED create
     \/ a = "reference_add" /\ ENABLED reference_add}

C8_CallSitesOnceInOrder ==
  /\ Len(qcalls) <= 2
  /\ \A i \in DOMAIN qcalls : IsInsertCall(qcalls[i]) <=> i = 1
  /\ \A i \in DOMAIN qcalls : IsRelationshipCall(qcalls[i]) <=> i = 2
  /\ QDone => Len(qcalls) = 2
  /\ Len(wcalls) = wpc
  /\ \A i \in DOMAIN wcalls :
       /\ i <= 6 => wcalls[i].api = "create_class" /\ wcalls[i].class = Classes[i].class
       /\ (i > 6 /\ i <= 16) =>
            /\ wcalls[i].api = "create"
            /\ wcalls[i].class_name = Objects[i - 6].class_name
            /\ SameFields(wcalls[i].data_object, Objects[i - 6].data_object)
       /\ i > 16 =>
            /\ wcalls[i].api = "reference_add"
            /\ wcalls[i].from_uuid = wenv[References[i - 16].from]
            /\ wcalls[i].from_property_name = References[i - 16].rel
            /\ wcalls[i].to_uuid = wenv[References[i - 16].to]
  /\ WDone =>
       /\ Cardinality(CallsOf(wcalls, "create_class")) = 6
       /\ Cardinality(CallsOf(wcalls, "create")) = 10
       /\ Cardinality(CallsOf(wcalls, "reference_add")) = 10
  /\ Cardinality(QEnabledStatements) = (IF QDone THEN 0 ELSE 1)
  /\ Cardinality(WEnabledStatements) = (IF WDone THEN 0 ELSE 1)

C8_FinalStateStable ==
  /\ QDone => qstore' = qstore /\ qcalls' = qcalls /\ qpc' = qpc
  /\ WDone => wstore' = wstore /\ wcalls' = wcalls /\ wschema' = wschema /\ wpc' = wpc

\* C8: each script is a sequential process that terminates: it issues each of
\* its call sites exactly once in program order (2 upserts; 6 create_class,
\* 10 create, 10 reference_add), has exactly one statement to run next until
\* it is done, and reaches a final state after which its store no longer
\* changes.
C8_SequentialAndTerminates ==
  /\ []C8_CallSitesOnceInOrder
  /\ [][C8_FinalStateStable]_vars
  /\ <>[](QDone /\ WDone)

C8_Witness == QDone /\ WDone /\ Len(qcalls) = 2 /\ Len(wcalls) = 26

(***************************************************************************)
(* C9                                                                      *)
(***************************************************************************)

\* C9: no dangling references: the source and the target of every edge in a
\* store are identifiers of entities already stored, and every reference_add
\* names only identifiers returned by an earlier create.
C9_NoDanglingReferences ==
  /\ \A e \in QEdges : e[1] \in DOMAIN qstore /\ e[3] \in DOMAIN qstore
  /\ \A e \in WEdgesById : e[1] \in DOMAIN wstore /\ e[3] \in DOMAIN wstore
  /\ \A i \in CallsOf(wcalls, "reference_add") :
       /\ wcalls[i].from_uuid \in Range(wenv)
       /\ wcalls[i].to_uuid \in Range(wenv)
  /\ Range(wenv) \subseteq DOMAIN wstore

C9_Witness == QDone /\ WDone /\ Cardinality(QEdges) = 6 /\ Cardinality(WEdgesById) = 10

(***************************************************************************)
(* C10                                                                     *)
(***************************************************************************)

\* C10: in the Weaviate example every property name used on an object, the
\* attribute keys passed to create and the relation names passed to
\* reference_add, is declared by an earlier create_class for the class of
\* that object, and each of the six classes is created exactly once before
\* any object of that class is created.
C10_SchemaConformance ==
  /\ \A id \in DOMAIN wstore :
       /\ wstore[id].class \in DOMAIN wschema
       /\ DOMAIN wstore[id].properties \subseteq wschema[wstore[id].class]
       /\ \A r \in wstore[id].references : r[1] \in wschema[wstore[id].class]
  /\ \A i, j \in CallsOf(wcalls, "create_class") :
       wcalls[i].class = wcalls[j].class => i = j
  /\ WDone => Cardinality(DOMAIN wschema) = 6

====
